---------------------------- MODULE Spec2Model ----------------------------
(***************************************************************************)
(* A model of the rust-grep regular-expression engine: the parser of       *)
(* src/regex/parser.rs, the backtracking matcher of src/regex/matcher.rs   *)
(* and the per-line search loop of src/search.rs.                          *)
(*                                                                         *)
(* Text is modelled as the sequence of its UTF-8 bytes, a pattern as the   *)
(* sequence of its characters (the parser only iterates over chars()).     *)
(* A character is a string; the one two-byte character of the model is     *)
(* "U+00E9", encoded as the bytes "C3" "A9".                               *)
(***************************************************************************)
EXTENDS Integers, Sequences, FiniteSets, TLC

VARIABLES
    shape,                \* how the pattern string was put together
    pattern,              \* the pattern string handed to parse_regex (chars)
    tokens,               \* the token tree returned by parse_regex
    text,                 \* the text handed to match_here / match_pattern (bytes)
    captures,             \* the capture vector handed to match_here
    result,               \* outcome of the last match_here / match_pattern call
    pc,                   \* position of the driver
    overflow_checks,      \* build profile: are arithmetic overflow checks compiled in
    line,                 \* process_input: the line being searched (bytes)
    current_search_text,  \* process_input: the suffix still to be searched
    last_match_end_in_line, \* process_input: end of the last reported match
    line_has_match,       \* process_input: did any attempt on this line match
    line_buffer,          \* process_input: the reconstructed output line
    reported,             \* process_input: the matches reported so far
    attempts,             \* process_input: offsets at which match_pattern ran
    is_anchored,          \* process_input: the pattern began with ^
    use_o,                \* process_input: -o mode
    use_color,            \* process_input: highlight the matches
    content,              \* process_input: the content to search (bytes)
    lines,                \* process_input: the lines not yet searched
    global_matched,       \* process_input: did any line match
    output                \* the lines printed so far

vars == <<shape, pattern, tokens, text, captures, result, pc, overflow_checks, line,
          current_search_text, last_match_end_in_line, line_has_match,
          line_buffer, reported, attempts, is_anchored, use_o, use_color,
          content, lines, global_matched, output>>

matchVars == <<shape, pattern, tokens, text, captures, result, overflow_checks>>

searchVars == <<line, current_search_text, last_match_end_in_line,
                line_has_match, line_buffer, reported, attempts,
                is_anchored, use_o, use_color, content, lines,
                global_matched, output>>

-----------------------------------------------------------------------------
(* Characters and their UTF-8 encoding                                     *)

WideChar == "U+00E9"

LeadByte == "C3"

ContinuationByte == "A9"

len_utf8(c) == IF c = WideChar THEN 2 ELSE 1

EncodeChar(c) == IF c = WideChar THEN <<LeadByte, ContinuationByte>> ELSE <<c>>

RECURSIVE EncodeStr(_)
EncodeStr(cs) ==
    IF cs = <<>> THEN <<>> ELSE EncodeChar(Head(cs)) \o EncodeStr(Tail(cs))

\* str::chars().next() on a non-empty, valid UTF-8 byte sequence
FirstChar(bytes) == IF bytes[1] = LeadByte THEN WideChar ELSE bytes[1]

\* str::is_char_boundary
is_char_boundary(bytes, i) ==
    \/ i = 0
    \/ i = Len(bytes)
    \/ (i > 0 /\ i < Len(bytes) /\ bytes[i + 1] # ContinuationByte)

\* &s[i..] and &s[..i], defined where i is a character boundary
SliceFrom(bytes, i) == SubSeq(bytes, i + 1, Len(bytes))

SliceTo(bytes, i) == SubSeq(bytes, 1, i)

\* str::starts_with(&str): byte-wise prefix test
starts_with(bytes, prefix) ==
    /\ Len(prefix) <= Len(bytes)
    /\ SubSeq(bytes, 1, Len(prefix)) = prefix

AsciiDigits == {"0", "1", "2", "3", "4", "5", "6", "7", "8", "9"}

AsciiLetters ==
    {"a", "b", "c", "d", "e", "f", "g", "h", "i", "j", "k", "l", "m",
     "n", "o", "p", "q", "r", "s", "t", "u", "v", "w", "x", "y", "z",
     "A", "B", "C", "D", "E", "F", "G", "H", "I", "J", "K", "L", "M",
     "N", "O", "P", "Q", "R", "S", "T", "U", "V", "W", "X", "Y", "Z"}

\* slice::contains / str::contains(char)
Contains(seq, c) == \E i \in 1..Len(seq) : seq[i] = c

is_ascii_digit(c) == c \in AsciiDigits

is_ascii_alphanumeric(c) == c \in AsciiLetters \cup AsciiDigits

-----------------------------------------------------------------------------
(* Tokens (src/regex/ast.rs)                                               *)

NoneUsize == [some |-> FALSE, val |-> 0]

SomeUsize(n) == [some |-> TRUE, val |-> n]

NoneString == [some |-> FALSE, val |-> <<>>]

SomeString(s) == [some |-> TRUE, val |-> s]

Literal(c) == [type |-> "Literal", c |-> c]

Digit == [type |-> "Digit"]

Alphanumeric == [type |-> "Alphanumeric"]

Wildcard == [type |-> "Wildcard"]

BracketGroup(members, group_type) ==
    [type |-> "BracketGroup", members |-> members, group_type |-> group_type]

EndAnchor == [type |-> "EndAnchor"]

Quantifier(inner, min, max) ==
    [type |-> "Quantifier", inner |-> inner, min |-> min, max |-> max]

Alternation(left, right) ==
    [type |-> "Alternation", left |-> left, right |-> right]

Group(body, id) == [type |-> "Group", body |-> body, id |-> id]

Backreference(n) == [type |-> "Backreference", n |-> n]

-----------------------------------------------------------------------------
(* The parser (src/regex/parser.rs)                                        *)

DigitValue(c) ==
    CASE c = "0" -> 0 [] c = "1" -> 1 [] c = "2" -> 2 [] c = "3" -> 3
      [] c = "4" -> 4 [] c = "5" -> 5 [] c = "6" -> 6 [] c = "7" -> 7
      [] c = "8" -> 8 [] c = "9" -> 9

Whitespace == {" "}

\* str::trim
RECURSIVE trim_start(_)
trim_start(cs) ==
    IF cs # <<>> /\ Head(cs) \in Whitespace THEN trim_start(Tail(cs)) ELSE cs

RECURSIVE trim_end(_)
trim_end(cs) ==
    IF cs # <<>> /\ cs[Len(cs)] \in Whitespace
    THEN trim_end(SubSeq(cs, 1, Len(cs) - 1)) ELSE cs

trim(cs) == trim_end(trim_start(cs))

RECURSIVE DecimalValue(_)
DecimalValue(ds) ==
    IF ds = <<>> THEN 0
    ELSE 10 * DecimalValue(SubSeq(ds, 1, Len(ds) - 1)) + DigitValue(ds[Len(ds)])

\* str::parse::<usize>: an optional '+', then one or more ASCII digits
ParseUsize(cs) ==
    LET ds == IF cs # <<>> /\ Head(cs) = "+" THEN Tail(cs) ELSE cs IN
    IF ds # <<>> /\ \A i \in 1..Len(ds) : ds[i] \in AsciiDigits
    THEN SomeUsize(DecimalValue(ds))
    ELSE NoneUsize

\* str::split(sep): the parts between separators, at least one part
RECURSIVE SplitFrom(_, _, _, _)
SplitFrom(cs, sep, i, cur) ==
    IF i > Len(cs) THEN <<cur>>
    ELSE IF cs[i] = sep THEN <<cur>> \o SplitFrom(cs, sep, i + 1, <<>>)
    ELSE SplitFrom(cs, sep, i + 1, Append(cur, cs[i]))

Split(cs, sep) == SplitFrom(cs, sep, 1, <<>>)

\* Scan of a bracket class: members up to (not including) ']'
\* (parser.rs 32-38); returns the members and the index of the next char.
RECURSIVE ScanClass(_, _, _)
ScanClass(chars, i, class_chars) ==
    IF i > Len(chars) THEN [buf |-> class_chars, next |-> i]
    ELSE IF chars[i] = "]" THEN [buf |-> class_chars, next |-> i + 1]
    ELSE ScanClass(chars, i + 1, Append(class_chars, chars[i]))

\* Scan to the matching ')' with a depth counter (parser.rs 46-59)
RECURSIVE ScanGroup(_, _, _, _)
ScanGroup(chars, i, depth, group_buffer) ==
    IF i > Len(chars) THEN [buf |-> group_buffer, next |-> i]
    ELSE IF chars[i] = "("
    THEN ScanGroup(chars, i + 1, depth + 1, Append(group_buffer, chars[i]))
    ELSE IF chars[i] = ")"
    THEN IF depth - 1 = 0 THEN [buf |-> group_buffer, next |-> i + 1]
         ELSE ScanGroup(chars, i + 1, depth - 1, Append(group_buffer, chars[i]))
    ELSE ScanGroup(chars, i + 1, depth, Append(group_buffer, chars[i]))

\* Split on '|' at parenthesis depth 0 (parser.rs 62-79)
RECURSIVE SplitParts(_, _, _, _)
SplitParts(buf, i, paren_depth, current_part) ==
    IF i > Len(buf) THEN <<current_part>>
    ELSE LET d == IF buf[i] = "(" THEN paren_depth + 1
                  ELSE IF buf[i] = ")" THEN paren_depth - 1
                  ELSE paren_depth
         IN IF buf[i] = "|" /\ d = 0
            THEN <<current_part>> \o SplitParts(buf, i + 1, d, <<>>)
            ELSE SplitParts(buf, i + 1, d, Append(current_part, buf[i]))

\* Scan of a braced quantifier up to '}' (parser.rs 101-108)
RECURSIVE ScanBrace(_, _, _)
ScanBrace(chars, i, buffer) ==
    IF i > Len(chars) THEN [buf |-> buffer, next |-> i]
    ELSE IF chars[i] = "}" THEN [buf |-> buffer, next |-> i + 1]
    ELSE ScanBrace(chars, i + 1, Append(buffer, chars[i]))

\* Mutant: the maximum after the comma is dropped
BraceQuantifier_NoMax(prev, buffer) ==
    LET parts == Split(buffer, ",")
        pn == ParseUsize(trim(parts[1]))
        n == IF pn.some THEN pn.val ELSE 0
    IN IF Contains(buffer, ",")
       THEN Quantifier(prev, n, NoneUsize)
       ELSE Quantifier(prev, n, SomeUsize(n))

\* Mutant: a malformed minimum becomes 1
BraceQuantifier_MinDefaultsToOne(prev, buffer) ==
    LET parts == Split(buffer, ",")
        pn == ParseUsize(trim(parts[1]))
        n == IF pn.some THEN pn.val ELSE 1
    IN IF Contains(buffer, ",")
       THEN Quantifier(prev, n, ParseUsize(trim(parts[2])))
       ELSE Quantifier(prev, n, SomeUsize(n))

\* The Quantifier a braced buffer wraps around prev (parser.rs 110-117)
BraceQuantifier(prev, buffer) ==
    LET parts == Split(buffer, ",")
        pn == ParseUsize(trim(parts[1]))
        n == IF pn.some THEN pn.val ELSE 0
    IN IF Contains(buffer, ",")
       THEN Quantifier(prev, n, ParseUsize(trim(parts[2])))
       ELSE Quantifier(prev, n, SomeUsize(n))

\* tokens.pop() followed by the push of the wrapped token; no-op when empty
WrapLast(toks, min, max) ==
    IF toks = <<>> THEN toks
    ELSE Append(SubSeq(toks, 1, Len(toks) - 1),
                Quantifier(toks[Len(toks)], min, max))

\* Mutant: the counter is read without being incremented
current_group_id_NotIncremented(group_counter) == group_counter

\* *group_counter += 1; let current_group_id = *group_counter
current_group_id(group_counter) == group_counter + 1

RECURSIVE parse_pattern(_, _)
RECURSIVE ParseLoop(_, _, _, _)
RECURSIVE NestAlternation(_, _, _, _)

\* The loop over parts.iter().skip(2) (parser.rs 88-91)
NestAlternation(parts, k, alt_token, counter) ==
    IF k > Len(parts) THEN [tokens |-> <<alt_token>>, group_counter |-> counter]
    ELSE LET p == parse_pattern(parts[k], counter) IN
         NestAlternation(parts, k + 1,
                         Alternation(<<alt_token>>, p.tokens), p.group_counter)

\* The while loop of parse_pattern at character index i
ParseLoop(chars, i, toks, counter) ==
    IF i > Len(chars) THEN [tokens |-> toks, group_counter |-> counter]
    ELSE
    LET c == chars[i] IN
    CASE c = "\\" ->
            IF i + 1 > Len(chars)
            THEN ParseLoop(chars, i + 1, toks, counter)
            ELSE LET e == chars[i + 1]
                     tok == IF e = "d" THEN Digit
                            ELSE IF e = "w" THEN Alphanumeric
                            ELSE IF e \in AsciiDigits
                            THEN Backreference(DigitValue(e))
                            ELSE Literal(e)
                 IN ParseLoop(chars, i + 2, Append(toks, tok), counter)
      [] c = "$" -> ParseLoop(chars, i + 1, Append(toks, EndAnchor), counter)
      [] c = "[" ->
            LET negated == i + 1 <= Len(chars) /\ chars[i + 1] = "^"
                sc == ScanClass(chars, IF negated THEN i + 2 ELSE i + 1, <<>>)
                group_type == IF negated THEN "Negative" ELSE "Positive"
            IN ParseLoop(chars, sc.next,
                         Append(toks, BracketGroup(sc.buf, group_type)), counter)
      [] c = "(" ->
            LET id == current_group_id(counter)
                sg == ScanGroup(chars, i + 1, 1, <<>>)
                parts == SplitParts(sg.buf, 1, 0, <<>>)
            IN IF Len(parts) > 1
               THEN LET p0 == parse_pattern(parts[1], id)
                        p1 == parse_pattern(parts[2], p0.group_counter)
                        alt == NestAlternation(parts, 3,
                                   Alternation(p0.tokens, p1.tokens),
                                   p1.group_counter)
                    IN ParseLoop(chars, sg.next,
                                 Append(toks, Group(alt.tokens, id)),
                                 alt.group_counter)
               ELSE LET g == parse_pattern(sg.buf, id) IN
                    ParseLoop(chars, sg.next,
                              Append(toks, Group(g.tokens, id)),
                              g.group_counter)
      [] c = "{" ->
            LET sb == ScanBrace(chars, i + 1, <<>>) IN
            IF toks = <<>> THEN ParseLoop(chars, sb.next, toks, counter)
            ELSE ParseLoop(chars, sb.next,
                           Append(SubSeq(toks, 1, Len(toks) - 1),
                                  BraceQuantifier(toks[Len(toks)], sb.buf)),
                           counter)
      [] c = "+" ->
            ParseLoop(chars, i + 1, WrapLast(toks, 1, NoneUsize), counter)
      [] c = "?" ->
            ParseLoop(chars, i + 1, WrapLast(toks, 0, SomeUsize(1)), counter)
      [] c = "*" ->
            ParseLoop(chars, i + 1, WrapLast(toks, 0, NoneUsize), counter)
      [] c = "." -> ParseLoop(chars, i + 1, Append(toks, Wildcard), counter)
      [] OTHER -> ParseLoop(chars, i + 1, Append(toks, Literal(c)), counter)

parse_pattern(chars, group_counter) == ParseLoop(chars, 1, <<>>, group_counter)

parse_regex(chars) == parse_pattern(chars, 0).tokens

-----------------------------------------------------------------------------
(* The matcher (src/regex/matcher.rs)                                      *)

\* Mutant: a Literal accepts any character
matches_token_LiteralAsWildcard(token, c) ==
    CASE token.type = "Wildcard" -> TRUE
      [] token.type = "Literal" -> TRUE
      [] token.type = "Digit" -> is_ascii_digit(c)
      [] token.type = "Alphanumeric" -> is_ascii_alphanumeric(c) \/ c = "_"
      [] token.type = "BracketGroup" ->
            IF token.group_type = "Positive"
            THEN Contains(token.members, c)
            ELSE ~Contains(token.members, c)
      [] OTHER -> FALSE

matches_token(token, c) ==
    CASE token.type = "Wildcard" -> TRUE
      [] token.type = "Literal" -> c = token.c
      [] token.type = "Digit" -> is_ascii_digit(c)
      [] token.type = "Alphanumeric" -> is_ascii_alphanumeric(c) \/ c = "_"
      [] token.type = "BracketGroup" ->
            IF token.group_type = "Positive"
            THEN Contains(token.members, c)
            ELSE ~Contains(token.members, c)
      [] OTHER -> FALSE

\* Outcomes of match_here: Option<usize> together with the capture vector it
\* leaves behind, or the abort of the thread (a panic).
SomeLen(n, caps) == [tag |-> "Some", len |-> n, caps |-> caps, why |-> ""]

NoMatch(caps) == [tag |-> "None", len |-> 0, caps |-> caps, why |-> ""]

Panic(why) == [tag |-> "Panic", len |-> 0, caps |-> <<>>, why |-> why]

\* Vec::resize(id, None) when the vector is shorter than id
ResizeCaptures(caps, id) ==
    IF Len(caps) < id
    THEN caps \o [i \in 1..(id - Len(caps)) |-> NoneString]
    ELSE caps

\* Mutant: the right branch is attempted before the left one
BranchOrder_RightFirst(t) == <<t.right, t.left>>

\* The order in which the branches of an Alternation are attempted
\* (matcher.rs 41 then 50)
BranchOrder(t) == <<t.left, t.right>>

\* The try-lengths of the Group arm in the order (0..=text.len()).rev()
\* visits them, as the first length and the step to the next (matcher.rs 67)
FirstTryLen(bytes) == Len(bytes)

NextTryLen(try_len) == try_len - 1

\* `if let Some(0) = max` (matcher.rs 100)
QuantifierExhausted(max) == max.some /\ max.val = 0

\* Mutant: the quantifier is re-entered after every occurrence
ShouldRecurse_Always(inner_len, min) == TRUE

\* `if inner_len > 0 || *min > 0` (matcher.rs 110)
ShouldRecurse(inner_len, min) == inner_len > 0 \/ min > 0

\* next_min and next_max (matcher.rs 111-112)
NextMin(min) == IF min > 0 THEN min - 1 ELSE 0

NextMax(max) == IF max.some THEN SomeUsize(max.val - 1) ELSE NoneUsize

\* Mutant: the fallback does not look at min
FallbackAllowed_IgnoringMin(min) == TRUE

\* `if *min == 0` guarding the fallback (matcher.rs 128)
FallbackAllowed(min) == min = 0

\* Mutant: the fallback goes on with the captures the greedy attempt left
RestoreCaptures_Skipped(saved_captures, left_behind) == left_behind

\* `*captures = saved_captures` before the fallback (matcher.rs 127)
RestoreCaptures(saved_captures, left_behind) == saved_captures

\* The text an EndAnchor inspects (matcher.rs 28)
AnchorSatisfied(bytes) == bytes = <<>>

\* captures.get(n - 1) yielding Some(Some(captured_val)) (matcher.rs 89)
HasCapture(caps, n) == n >= 1 /\ n <= Len(caps) /\ caps[n].some

RECURSIVE match_here(_, _, _)
RECURSIVE AlternationBranch(_, _, _, _)
RECURSIVE GroupTryLen(_, _, _, _, _, _)

\* One branch of an Alternation followed by the remaining outer tokens, on a
\* clone of the captures (matcher.rs 40-48 and 49-57).
AlternationBranch(branch, rest, bytes, caps) ==
    LET b == match_here(branch, bytes, caps) IN
    IF b.tag = "Panic" THEN b
    ELSE IF b.tag = "None" THEN NoMatch(caps)
    ELSE IF ~is_char_boundary(bytes, b.len) THEN Panic("char_boundary")
    ELSE LET r == match_here(rest, SliceFrom(bytes, b.len), b.caps) IN
         IF r.tag = "Panic" THEN r
         ELSE IF r.tag = "Some" THEN SomeLen(b.len + r.len, r.caps)
         ELSE NoMatch(caps)

\* The try-length loop of the Group arm from try_len down to 0
\* (matcher.rs 67-85); captures already resized.
GroupTryLen(inner_tokens, id, rest, bytes, caps, try_len) ==
    IF try_len < 0 THEN NoMatch(caps)
    ELSE IF ~is_char_boundary(bytes, try_len) THEN Panic("char_boundary")
    ELSE LET g == match_here(inner_tokens, SliceTo(bytes, try_len), caps) IN
         IF g.tag = "Panic" THEN g
         ELSE IF g.tag = "Some" /\ g.len = try_len
         THEN IF id < 1 \/ id > Len(g.caps) THEN Panic("index")
              ELSE LET inner_caps ==
                          [g.caps EXCEPT ![id] = SomeString(SliceTo(bytes, g.len))]
                       r == match_here(rest, SliceFrom(bytes, g.len), inner_caps)
                   IN IF r.tag = "Panic" THEN r
                      ELSE IF r.tag = "Some"
                      THEN SomeLen(g.len + r.len, r.caps)
                      ELSE GroupTryLen(inner_tokens, id, rest, bytes,
                                       caps, NextTryLen(try_len))
         ELSE GroupTryLen(inner_tokens, id, rest, bytes, caps,
                          NextTryLen(try_len))

match_here(toks, bytes, caps) ==
    IF toks = <<>> THEN SomeLen(0, caps)
    ELSE
    LET t == Head(toks)
        rest == Tail(toks)
    IN
    CASE t.type = "EndAnchor" ->
            IF AnchorSatisfied(bytes)
            THEN SomeLen(0, caps) ELSE NoMatch(caps)
      [] t.type = "Alternation" ->
            LET first == AlternationBranch(BranchOrder(t)[1], rest, bytes, caps)
            IN IF first.tag # "None" THEN first
               ELSE AlternationBranch(BranchOrder(t)[2], rest, bytes, caps)
      [] t.type = "Group" ->
            GroupTryLen(t.body, t.id, rest, bytes,
                        ResizeCaptures(caps, t.id), FirstTryLen(bytes))
      [] t.type = "Backreference" ->
            IF t.n = 0 /\ overflow_checks
            THEN \* `*n - 1` on the usize 0 aborts when overflow checks are
                 \* compiled in; without them it wraps to usize::MAX, for
                 \* which get() yields None
                 Panic("overflow")
            ELSE IF HasCapture(caps, t.n)
                    /\ starts_with(bytes, caps[t.n].val)
            THEN LET len == Len(caps[t.n].val) IN
                 IF ~is_char_boundary(bytes, len) THEN Panic("char_boundary")
                 ELSE LET r == match_here(rest, SliceFrom(bytes, len), caps)
                      IN IF r.tag = "Some"
                         THEN SomeLen(len + r.len, r.caps) ELSE r
            ELSE NoMatch(caps)
      [] t.type = "Quantifier" ->
            IF QuantifierExhausted(t.max)
            THEN match_here(rest, bytes, caps)
            ELSE
            LET saved_caps == caps
                i == match_here(<<t.inner>>, bytes, caps)
                sequence ==
                    <<Quantifier(t.inner, NextMin(t.min), NextMax(t.max))>>
                        \o rest
                greedy ==
                    IF i.tag = "Some" /\ ShouldRecurse(i.len, t.min)
                    THEN IF ~is_char_boundary(bytes, i.len)
                         THEN Panic("char_boundary")
                         ELSE match_here(sequence, SliceFrom(bytes, i.len), i.caps)
                    ELSE NoMatch(i.caps)
                restored == RestoreCaptures(saved_caps, greedy.caps)
            IN
            IF i.tag = "Panic" THEN i
            ELSE IF greedy.tag = "Panic" THEN greedy
            ELSE IF greedy.tag = "Some"
            THEN SomeLen(i.len + greedy.len, greedy.caps)
            ELSE IF FallbackAllowed(t.min)
            THEN match_here(rest, bytes, restored)
            ELSE NoMatch(restored)
      [] OTHER ->
            IF bytes # <<>> /\ matches_token(t, FirstChar(bytes))
            THEN LET char_len == len_utf8(FirstChar(bytes))
                     r == match_here(rest, SliceFrom(bytes, char_len), caps)
                 IN IF r.tag = "Some"
                    THEN SomeLen(char_len + r.len, r.caps) ELSE r
            ELSE NoMatch(caps)

\* Outcome of match_pattern: the matched prefix of input_line, None, or the
\* abort of the thread (matcher.rs 149-152)
match_pattern(input_line, toks) ==
    LET m == match_here(toks, input_line, <<>>) IN
    IF m.tag = "Some"
    THEN IF is_char_boundary(input_line, m.len)
         THEN [tag |-> "Some", slice |-> SliceTo(input_line, m.len), why |-> ""]
         ELSE [tag |-> "Panic", slice |-> <<>>, why |-> "char_boundary"]
    ELSE [tag |-> m.tag, slice |-> <<>>, why |-> m.why]

-----------------------------------------------------------------------------
(* Inputs: pattern strings put together from parts, and texts              *)

MaxTextLen == 3

MaxCount == 2

MaxBrace == 4

MaxRun == 5

TextChars == {"a", "b", WideChar}

RECURSIVE CharSeqs(_, _)
CharSeqs(chars, n) ==
    IF n = 0 THEN {<<>>}
    ELSE LET shorter == CharSeqs(chars, n - 1) IN
         shorter \cup {Append(cs, c) : cs \in {x \in shorter : Len(x) = n - 1},
                                       c \in chars}

\* The texts of the examples the specification gives
ExampleTexts ==
    {<<"a", "b", "c">>, <<"a", "d">>, <<"b", "c", "d">>, <<"a", "b", "c", "d">>,
     <<"a", "a", "a", "b">>, <<"a", "b", "a", "b">>, <<"a", "b", "a", "c">>,
     <<"a", "b", "a", "b", "x">>, <<"a", "b", "x">>, <<"a", "x">>,
     <<"a", "c">>}

Texts == {EncodeStr(cs) : cs \in CharSeqs(TextChars, MaxTextLen) \cup ExampleTexts}

Runs == {[i \in 1..k |-> "a"] : k \in 0..MaxRun}

DigitChar(d) ==
    CASE d = 0 -> "0" [] d = 1 -> "1" [] d = 2 -> "2" [] d = 3 -> "3"
      [] d = 4 -> "4" [] d = 5 -> "5" [] d = 6 -> "6" [] d = 7 -> "7"
      [] d = 8 -> "8" [] d = 9 -> "9"

Decimal(n) ==
    IF n < 10 THEN <<DigitChar(n)>>
    ELSE <<DigitChar(n \div 10), DigitChar(n % 10)>>

\* Quantifier notations, with the bounds they denote
Unbounded == [some |-> FALSE, val |-> 0]

QStar == [str |-> <<"*">>, min |-> 0, max |-> Unbounded]

QPlus == [str |-> <<"+">>, min |-> 1, max |-> Unbounded]

QOpt == [str |-> <<"?">>, min |-> 0, max |-> [some |-> TRUE, val |-> 1]]

QExact(n) ==
    [str |-> <<"{">> \o Decimal(n) \o <<"}">>,
     min |-> n, max |-> [some |-> TRUE, val |-> n]]

QAtLeast(n) ==
    [str |-> <<"{">> \o Decimal(n) \o <<",", "}">>, min |-> n, max |-> Unbounded]

QRange(n, m) ==
    [str |-> <<"{">> \o Decimal(n) \o <<",">> \o Decimal(m) \o <<"}">>,
     min |-> n, max |-> [some |-> TRUE, val |-> m]]

\* The braced notations with counts up to limit and min <= max
Braces(limit) ==
    {QExact(n) : n \in 0..limit} \cup {QAtLeast(n) : n \in 0..limit}
        \cup UNION {{QRange(n, m) : m \in n..limit} : n \in 0..limit}

Quants == {QStar, QPlus, QOpt} \cup Braces(MaxCount)

\* Single-character atoms, with the set of text characters they accept
AtomA == [str |-> <<"a">>, accepts |-> {"a"}]

AtomB == [str |-> <<"b">>, accepts |-> {"b"}]

AtomDot == [str |-> <<".">>, accepts |-> TextChars \cup {"c", "d", "x"}]

AtomClass == [str |-> <<"[", "a", "b", "]">>, accepts |-> {"a", "b"}]

AtomWord == [str |-> <<"\\", "w">>, accepts |-> {"a", "b", "c", "d", "x"}]

AtomWide == [str |-> <<WideChar>>, accepts |-> {WideChar}]

AtomNotA ==
    [str |-> <<"[", "^", "a", "]">>, accepts |-> {"b", "c", "d", "x", WideChar}]

LiteralStrings == CharSeqs({"a", "b"}, 2)

\* (p1|p2|...|pn)rest with literal branches and a literal rest
AltShapes ==
    {[family |-> "alt", branches |-> <<p, q>>, rest |-> r] :
        p \in LiteralStrings \ {<<>>}, q \in LiteralStrings \ {<<>>},
        r \in {<<>>, <<"a">>}}
    \cup {[family |-> "alt", branches |-> <<p, q, r>>, rest |-> <<>>] :
             p \in {<<"a">>, <<"b">>, <<"a", "b">>},
             q \in {<<"a">>, <<"b">>, <<"a", "b">>},
             r \in {<<"a">>, <<"b">>, <<"a", "b">>}}
    \cup {[family |-> "alt", branches |-> <<<<"a">>, <<"a", "b">>>>, rest |-> <<"c">>],
          [family |-> "alt", branches |-> <<<<"a">>, <<"b", "c">>>>, rest |-> <<"d">>],
          [family |-> "alt", branches |-> <<<<"a">>, <<"b">>, <<"c">>>>, rest |-> <<"d">>]}

\* (body)q rest: a quantified group followed by a literal rest
\* Group bodies, with the strings they match: unit repeated min..max times
GroupBodies ==
    {[str |-> <<"a">>, unit |-> <<"a">>, min |-> 1,
      max |-> [some |-> TRUE, val |-> 1]],
     [str |-> <<"a", "+">>, unit |-> <<"a">>, min |-> 1, max |-> Unbounded],
     [str |-> <<"a", "*">>, unit |-> <<"a">>, min |-> 0, max |-> Unbounded],
     [str |-> <<"a", "b">>, unit |-> <<"a", "b">>, min |-> 1,
      max |-> [some |-> TRUE, val |-> 1]]}

QGroupShapes ==
    {[family |-> "qgroup", body |-> b, q |-> q, rest |-> r] :
        b \in GroupBodies,
        q \in {QStar, QPlus, QOpt, QExact(1), QExact(2), QRange(1, 2)},
        r \in {<<>>, <<"a">>, <<"a", "b">>, <<"b">>}}

\* pre$post and (pre$)post with literal pre and post
AnchorShapes ==
    {[family |-> "anchor", grouped |-> g, pre |-> p, post |-> r] :
        g \in BOOLEAN, p \in {<<>>, <<"a">>, <<"a", "b">>, <<WideChar>>},
        r \in {<<>>, <<"a">>, <<"b">>}}

\* (X)\1 with X a sequence of single-character atoms
AtomSeqs ==
    {<<x>> : x \in {AtomA, AtomDot, AtomClass, AtomWord, AtomWide}}
    \cup {<<AtomA, AtomB>>, <<AtomDot, AtomDot>>, <<AtomWord, AtomWord>>,
          <<AtomA, AtomDot>>, <<AtomClass, AtomA>>}

RoundTripShapes == {[family |-> "roundtrip", atoms |-> xs] : xs \in AtomSeqs}

\* patterns holding a backreference that has no recorded capture
DanglingShapes ==
    {[family |-> "dangling", str |-> p] :
        p \in {<<"\\", "0">>, <<"\\", "1">>, <<"\\", "2">>,
               <<"a", "\\", "0">>, <<"a", "*", "\\", "0">>,
               <<"\\", "1", "(", "a", ")">>, <<"(", "a", ")", "\\", "2">>,
               <<"(", "a", ")", "\\", "0">>, <<"(", "\\", "1", "a", ")">>}}

\* x q rest: a quantified single-character atom followed by remaining tokens
RestStrings ==
    {<<>>, <<"a">>, <<"a", "b">>, <<"b">>, <<"(", ".", ".", ")">>}

QuantShapes ==
    {[family |-> "quant", atom |-> x, q |-> q, rest |-> r] :
        x \in {AtomA, AtomDot, AtomClass, AtomWord, AtomNotA},
        q \in Quants, r \in RestStrings}

\* a{n,m}, a{n,} and a{n}
BraceShapes ==
    {[family |-> "brace", q |-> q] :
        q \in Braces(MaxBrace)}

\* patterns of literal characters only, no metacharacter
LiteralShapes ==
    {[family |-> "literal", str |-> p] : p \in CharSeqs(TextChars, MaxTextLen)}

\* a first group followed by tokens that capture, repeat or refer back
CaptureShapes ==
    {[family |-> "captures", str |-> p] :
        p \in {<<"(", "a", ")", "(", "b", ")", "+", "a">>,
               <<"(", "a", ")", "(", "(", "b", ")", "|", "(", "a", ")", ")", "b">>,
               <<"(", "a", ")", "(", "b", ")", "*", "\\", "2">>,
               <<"(", "a", ")", "(", "b", ")", "?", "(", "a", ")", "\\", "3", "b">>,
               <<"(", "a", "|", "b", ")", "(", "b", "(", "a", ")", ")", "b">>,
               <<"(", "a", "*", ")", "(", "a", ")", "+", "b">>,
               <<"(", ".", ")", "(", "(", ".", ")", "\\", "1", ")", "+", "b">>}}

\* a{n,m} with m < n
InvertedBraces ==
    UNION {{QRange(n, m) : m \in 0..(n - 1)} : n \in 1..(MaxCount + 1)}

\* pre x q rest: a quantified single-character atom between literal strings,
\* the braces of q in either order
MinimumShapes ==
    {[family |-> "minimum", pre |-> p, atom |-> x, q |-> q, rest |-> r] :
        p \in {<<>>, <<"a">>}, x \in {AtomA, AtomB},
        q \in Quants \cup {QExact(3)} \cup InvertedBraces,
        r \in {<<>>, <<"c">>}}

Shapes ==
    AltShapes \cup QGroupShapes \cup AnchorShapes \cup RoundTripShapes
        \cup DanglingShapes \cup QuantShapes \cup BraceShapes
        \cup LiteralShapes \cup CaptureShapes \cup MinimumShapes

RECURSIVE JoinBranches(_)
JoinBranches(bs) ==
    IF Len(bs) = 1 THEN bs[1] ELSE bs[1] \o <<"|">> \o JoinBranches(Tail(bs))

RECURSIVE AtomsStr(_)
AtomsStr(xs) == IF xs = <<>> THEN <<>> ELSE Head(xs).str \o AtomsStr(Tail(xs))

\* The pattern string a shape stands for
Render(sh) ==
    CASE sh.family = "alt" ->
            <<"(">> \o JoinBranches(sh.branches) \o <<")">> \o sh.rest
      [] sh.family = "qgroup" ->
            <<"(">> \o sh.body.str \o <<")">> \o sh.q.str \o sh.rest
      [] sh.family = "anchor" ->
            IF sh.grouped
            THEN <<"(">> \o sh.pre \o <<"$", ")">> \o sh.post
            ELSE sh.pre \o <<"$">> \o sh.post
      [] sh.family = "roundtrip" ->
            <<"(">> \o AtomsStr(sh.atoms) \o <<")", "\\", "1">>
      [] sh.family \in {"dangling", "literal", "captures"} -> sh.str
      [] sh.family = "quant" -> sh.atom.str \o sh.q.str \o sh.rest
      [] sh.family = "brace" -> <<"a">> \o sh.q.str
      [] sh.family = "minimum" -> sh.pre \o sh.atom.str \o sh.q.str \o sh.rest

TextsFor(sh) == IF sh.family = "brace" THEN Runs ELSE Texts

-----------------------------------------------------------------------------
(* The matcher driven on one pattern and one text                          *)

SearchIdle ==
    /\ line = <<>>
    /\ current_search_text = <<>>
    /\ last_match_end_in_line = 0
    /\ line_has_match = FALSE
    /\ line_buffer = <<>>
    /\ reported = <<>>
    /\ attempts = <<>>
    /\ is_anchored = FALSE
    /\ use_o = FALSE
    /\ use_color = FALSE
    /\ content = <<>>
    /\ lines = <<>>
    /\ global_matched = FALSE
    /\ output = <<>>

NoResult == [tag |-> "Pending", why |-> ""]

Init ==
    /\ shape \in Shapes
    /\ pattern = Render(shape)
    /\ text \in TextsFor(shape)
    /\ overflow_checks \in BOOLEAN
    /\ tokens = <<>>
    /\ captures = <<>>
    /\ result = NoResult
    /\ pc = "start"
    /\ SearchIdle

\* let tokens = parse_regex(pattern)
ParseRegex ==
    /\ pc = "start"
    /\ tokens' = parse_regex(pattern)
    /\ pc' = "parsed"
    /\ UNCHANGED <<shape, pattern, text, captures, result, overflow_checks>>
    /\ UNCHANGED searchVars

\* match_pattern(text, &tokens)
MatchPattern ==
    /\ pc = "parsed"
    /\ result' = match_pattern(text, tokens)
    /\ pc' = "matched"
    /\ UNCHANGED <<shape, pattern, tokens, text, captures, overflow_checks>>
    /\ UNCHANGED searchVars

\* The Group arm resizes the captures and makes its first call on the body,
\* with try_len = text.len()
EnterGroup ==
    /\ pc = "parsed"
    /\ tokens # <<>>
    /\ Head(tokens).type = "Group"
    /\ tokens' = Head(tokens).body
    /\ captures' = ResizeCaptures(captures, Head(tokens).id)
    /\ pc' = "inner"
    /\ UNCHANGED <<shape, pattern, text, result, overflow_checks>>
    /\ UNCHANGED searchVars

\* The iteration of the Group arm's loop at try_len ends without a return:
\* the body does not match the slice entirely, or the remaining tokens fail
TryLenFails(group, rest, bytes, caps, try_len) ==
    /\ is_char_boundary(bytes, try_len)
    /\ LET g == match_here(group.body, SliceTo(bytes, try_len), caps) IN
       /\ g.tag # "Panic"
       /\ (g.tag = "Some" /\ g.len = try_len)
          => match_here(rest, SliceFrom(bytes, try_len),
                        [g.caps EXCEPT ![group.id] =
                            SomeString(SliceTo(bytes, try_len))]).tag = "None"

\* The Group arm reaches a try_len at which the body matches the whole slice,
\* records the capture and goes on to the remaining tokens
\* (matcher.rs 67-77): match_here(&tokens[1..], &text[group_len..], &mut inner_caps)
EnterRest ==
    /\ pc = "parsed"
    /\ tokens # <<>>
    /\ Head(tokens).type = "Group"
    /\ \E try_len \in 0..Len(text) :
          LET group == Head(tokens)
              caps == ResizeCaptures(captures, group.id)
              g == match_here(group.body, SliceTo(text, try_len), caps)
          IN /\ \A longer \in (try_len + 1)..Len(text) :
                    TryLenFails(group, Tail(tokens), text, caps, longer)
             /\ is_char_boundary(text, try_len)
             /\ g.tag = "Some"
             /\ g.len = try_len
             /\ captures' = [g.caps EXCEPT ![group.id] =
                                 SomeString(SliceTo(text, try_len))]
             /\ text' = SliceFrom(text, try_len)
    /\ tokens' = Tail(tokens)
    /\ pc' = "rest"
    /\ UNCHANGED <<shape, pattern, result, overflow_checks>>
    /\ UNCHANGED searchVars

\* The call the Group arm has set up runs: on the body,
\* match_here(inner_tokens, &text[..try_len], &mut inner_caps), or on the
\* remaining tokens
MatchHere ==
    /\ pc \in {"inner", "rest"}
    /\ result' = match_here(tokens, text, captures)
    /\ pc' = IF pc = "inner" THEN "returned" ELSE "rest_returned"
    /\ UNCHANGED <<shape, pattern, tokens, text, captures, overflow_checks>>
    /\ UNCHANGED searchVars

Next == ParseRegex \/ MatchPattern \/ EnterGroup \/ EnterRest \/ MatchHere

Spec == Init /\ [][Next]_vars

-----------------------------------------------------------------------------
(* The per-line search (src/search.rs, src/output.rs)                      *)

COLOR_START == <<"\\x1b[01;31m">>

COLOR_RESET == <<"\\x1b[m">>

maybe_colorize(slice, color) ==
    IF color THEN COLOR_START \o slice \o COLOR_RESET ELSE slice

\* str::lines: split at "\n", a "\r" before the "\n" dropped, no empty last line
RECURSIVE Lines(_, _)
Lines(bytes, cur) ==
    IF bytes = <<>> THEN IF cur = <<>> THEN <<>> ELSE <<cur>>
    ELSE IF Head(bytes) = "\n"
    THEN <<IF cur # <<>> /\ cur[Len(cur)] = "\r"
           THEN SubSeq(cur, 1, Len(cur) - 1) ELSE cur>> \o Lines(Tail(bytes), <<>>)
    ELSE Lines(Tail(bytes), Append(cur, Head(bytes)))

\* Patterns of the search runs
SearchShapes ==
    {[family |-> "search", str |-> p] :
        p \in {<<>>, <<"a">>, <<"a", "*">>, <<"a", "+">>, <<"b", "?">>,
               <<".">>, <<"$">>, <<"(", "a", ")">>, <<"a", "b">>,
               <<WideChar, "*">>}}

ShortLines == {EncodeStr(cs) : cs \in CharSeqs({"a", WideChar}, 1)}

Contents ==
    Texts \cup {l1 \o <<"\n">> \o l2 : l1 \in ShortLines, l2 \in ShortLines}
          \cup {<<"a", "\r", "\n">>}

InitSearch ==
    /\ shape \in SearchShapes
    /\ pattern = shape.str
    /\ content \in Contents
    /\ is_anchored \in BOOLEAN
    /\ use_o \in BOOLEAN
    /\ use_color \in BOOLEAN
    /\ overflow_checks \in BOOLEAN
    /\ tokens = <<>>
    /\ text = <<>>
    /\ captures = <<>>
    /\ result = NoResult
    /\ pc = "start"
    /\ line = <<>>
    /\ current_search_text = <<>>
    /\ last_match_end_in_line = 0
    /\ line_has_match = FALSE
    /\ line_buffer = <<>>
    /\ reported = <<>>
    /\ attempts = <<>>
    /\ lines = <<>>
    /\ global_matched = FALSE
    /\ output = <<>>

\* process_input is entered as run() does for standard input (filename None,
\* show_filename false, so the prefix is empty): `for line in content.lines()`
ProcessInput ==
    /\ pc = "parsed"
    /\ lines' = Lines(content, <<>>)
    /\ pc' = "next_line"
    /\ UNCHANGED matchVars
    /\ UNCHANGED <<line, current_search_text, last_match_end_in_line,
                   line_has_match, line_buffer, reported, attempts,
                   is_anchored, use_o, use_color, content, global_matched,
                   output>>

\* The next line is taken and the per-line locals are set up (search.rs 20-24)
BeginLine ==
    /\ pc = "next_line"
    /\ lines # <<>>
    /\ line' = Head(lines)
    /\ lines' = Tail(lines)
    /\ current_search_text' = Head(lines)
    /\ line_buffer' = <<>>
    /\ line_has_match' = FALSE
    /\ last_match_end_in_line' = 0
    /\ reported' = <<>>
    /\ attempts' = <<>>
    /\ pc' = "loop"
    /\ UNCHANGED matchVars
    /\ UNCHANGED <<is_anchored, use_o, use_color, content, global_matched, output>>

\* No line is left: process_input returns
Return ==
    /\ pc = "next_line"
    /\ lines = <<>>
    /\ pc' = "done"
    /\ UNCHANGED matchVars
    /\ UNCHANGED searchVars

\* let offset_in_line = line.len() - current_search_text.len(): the offset in
\* the line at which the attempt of the loop starts
offset_in_line == Len(line) - Len(current_search_text)

\* Mutant: the search moves on by one byte after every match
advance_by_OneByte(matched_slice) == 1

\* Mutant: an empty match does not move the search on
advance_by_MatchedLength(matched_slice) == Len(matched_slice)

\* let advance_by = if matched_slice.is_empty() { 1 } else { matched_slice.len() }
advance_by(matched_slice) ==
    IF matched_slice = <<>> THEN 1 ELSE Len(matched_slice)

\* Mutant: the loop goes on after an anchored attempt
StopAfterAttempt_Never(anchored) == FALSE

\* `if is_anchored { break; }` after an attempt, matched or not
StopAfterAttempt(anchored) == anchored

\* Mutant: a failed attempt gives up on the rest of the line
chars_as_str_SkippingLine(bytes) == SliceFrom(bytes, Len(bytes))

\* chars.next() followed by chars.as_str(): the text after its first character
chars_as_str(bytes) == SliceFrom(bytes, len_utf8(FirstChar(bytes)))

\* One iteration of the loop in which match_pattern matched (search.rs 27-54)
AttemptMatched ==
    /\ pc = "loop"
    /\ LET m == match_pattern(current_search_text, tokens)
           match_text == maybe_colorize(m.slice, use_color)
           gap_ok == /\ last_match_end_in_line <= offset_in_line
                     /\ is_char_boundary(line, last_match_end_in_line)
                     /\ is_char_boundary(line, offset_in_line)
       IN /\ m.tag = "Some"
          /\ global_matched' = TRUE
          /\ line_has_match' = TRUE
          /\ attempts' = Append(attempts, offset_in_line)
          /\ reported' = Append(reported, [start |-> offset_in_line,
                                           len |-> Len(m.slice)])
          /\ IF use_o
             THEN /\ output' = Append(output, match_text)
                  /\ UNCHANGED <<line_buffer, last_match_end_in_line>>
             ELSE IF gap_ok
             THEN /\ line_buffer' =
                        line_buffer
                          \o SubSeq(line, last_match_end_in_line + 1, offset_in_line)
                          \o match_text
                  /\ last_match_end_in_line' = offset_in_line + Len(m.slice)
                  /\ UNCHANGED output
             ELSE UNCHANGED <<output, line_buffer, last_match_end_in_line>>
          /\ IF ~use_o /\ ~gap_ok
             THEN pc' = "abort" /\ UNCHANGED current_search_text
             ELSE IF StopAfterAttempt(is_anchored)
             THEN pc' = "after_loop" /\ UNCHANGED current_search_text
             ELSE IF advance_by(m.slice) > Len(current_search_text)
             THEN pc' = "after_loop" /\ UNCHANGED current_search_text
             ELSE IF ~is_char_boundary(current_search_text, advance_by(m.slice))
             THEN pc' = "abort" /\ UNCHANGED current_search_text
             ELSE /\ current_search_text' =
                        SliceFrom(current_search_text, advance_by(m.slice))
                  /\ pc' = "loop"
    /\ UNCHANGED matchVars
    /\ UNCHANGED <<line, is_anchored, use_o, use_color, content, lines>>

\* One iteration of the loop in which match_pattern did not match
\* (search.rs 55-65)
AttemptFailed ==
    /\ pc = "loop"
    /\ match_pattern(current_search_text, tokens).tag = "None"
    /\ attempts' = Append(attempts, Len(line) - Len(current_search_text))
    /\ IF StopAfterAttempt(is_anchored)
       THEN pc' = "after_loop" /\ UNCHANGED current_search_text
       ELSE IF current_search_text # <<>>
       THEN /\ current_search_text' = chars_as_str(current_search_text)
            /\ pc' = "loop"
       ELSE pc' = "after_loop" /\ UNCHANGED current_search_text
    /\ UNCHANGED matchVars
    /\ UNCHANGED <<line, last_match_end_in_line, line_has_match, line_buffer,
                   reported, is_anchored, use_o, use_color, content, lines,
                   global_matched, output>>

\* match_pattern aborts and takes the search down with it
AttemptAborted ==
    /\ pc = "loop"
    /\ match_pattern(current_search_text, tokens).tag = "Panic"
    /\ attempts' = Append(attempts, Len(line) - Len(current_search_text))
    /\ pc' = "abort"
    /\ UNCHANGED matchVars
    /\ UNCHANGED <<line, current_search_text, last_match_end_in_line,
                   line_has_match, line_buffer, reported, is_anchored, use_o,
                   use_color, content, lines, global_matched, output>>

\* After the loop the reconstructed line is printed (search.rs 68-71)
FinishLine ==
    /\ pc = "after_loop"
    /\ IF ~use_o /\ line_has_match
       THEN IF /\ last_match_end_in_line <= Len(line)
               /\ is_char_boundary(line, last_match_end_in_line)
            THEN /\ line_buffer' =
                       line_buffer \o SliceFrom(line, last_match_end_in_line)
                 /\ output' =
                       Append(output,
                              line_buffer \o SliceFrom(line, last_match_end_in_line))
                 /\ pc' = "next_line"
            ELSE pc' = "abort" /\ UNCHANGED <<line_buffer, output>>
       ELSE pc' = "next_line" /\ UNCHANGED <<line_buffer, output>>
    /\ UNCHANGED matchVars
    /\ UNCHANGED <<line, current_search_text, last_match_end_in_line,
                   line_has_match, reported, attempts, is_anchored, use_o,
                   use_color, content, lines, global_matched>>

NextSearch ==
    \/ ParseRegex
    \/ ProcessInput
    \/ BeginLine
    \/ Return
    \/ AttemptMatched
    \/ AttemptFailed
    \/ AttemptAborted
    \/ FinishLine

SpecSearch == InitSearch /\ [][NextSearch]_vars

-----------------------------------------------------------------------------
(* The parser driven on one pattern string                                 *)

MaxPatLen == 5

\* Pattern strings of parentheses, alternation bars, a literal and a quantifier
ParenPatterns == CharSeqs({"(", ")", "a", "|", "+"}, MaxPatLen)

\* Longer patterns with nested groups and groups inside alternation branches
GroupExamples ==
    {<<"(", "a", "(", "b", ")", ")">>,
     <<"(", "(", "a", ")", "|", "(", "b", ")", ")", "(", "c", ")">>,
     <<"(", "(", "a", ")", "(", "b", ")", ")", "+", "(", "c", ")">>,
     <<"(", "a", "|", "(", "b", ")", "|", "(", "c", ")", ")", "\\", "3">>,
     <<"(", "(", "(", "a", ")", ")", ")", "(", "[", "(", "]", ")">>,
     <<"(", "\\", "(", "|", "(", "a", ")", ")", "(", "b", ")">>}

\* Pattern strings in which classes, groups, braces and escapes may be left
\* open and quantifiers may have nothing before them
OpenPatterns ==
    CharSeqs({"a", "x", "1", ",", "{", "}", "[", "(", "\\", "+"}, MaxPatLen - 1)

ParsePatterns == ParenPatterns \cup GroupExamples \cup OpenPatterns

\* What may stand for a number inside braces, with the value it denotes
Numerals ==
    {[str |-> Decimal(n), val |-> [some |-> TRUE, val |-> n]] :
        n \in 0..(MaxCount + 1)}
    \cup {[str |-> <<" ", "1", " ">>, val |-> [some |-> TRUE, val |-> 1]],
          [str |-> <<"+", "2">>, val |-> [some |-> TRUE, val |-> 2]],
          [str |-> <<"0", "2">>, val |-> [some |-> TRUE, val |-> 2]]}

NotNumerals ==
    {[str |-> s, val |-> Unbounded] :
        s \in {<<>>, <<" ">>, <<"x">>, <<"-", "1">>, <<"1", "x">>,
               <<"1", " ", "2">>}}

NumberStrings == Numerals \cup NotNumerals

\* a{lo}, a{lo,hi} and the same without the closing brace
BracePatterns ==
    {[family |-> "parsebrace", lo |-> l, comma |-> FALSE, hi |-> l, closed |-> c] :
        l \in NumberStrings, c \in BOOLEAN}
    \cup {[family |-> "parsebrace", lo |-> l, comma |-> TRUE, hi |-> h,
           closed |-> c] :
             l \in NumberStrings, h \in NumberStrings, c \in BOOLEAN}

ParseShapes ==
    {[family |-> "parse", str |-> p] : p \in ParsePatterns} \cup BracePatterns

RenderParse(sh) ==
    IF sh.family = "parse" THEN sh.str
    ELSE <<"a", "{">> \o sh.lo.str
            \o (IF sh.comma THEN <<",">> \o sh.hi.str ELSE <<>>)
            \o (IF sh.closed THEN <<"}">> ELSE <<>>)

InitParse ==
    /\ shape \in ParseShapes
    /\ pattern = RenderParse(shape)
    /\ text = <<>>
    /\ overflow_checks \in BOOLEAN
    /\ tokens = <<>>
    /\ captures = <<>>
    /\ result = NoResult
    /\ pc = "start"
    /\ SearchIdle

NextParse == ParseRegex

SpecParse == InitParse /\ [][NextParse]_vars

-----------------------------------------------------------------------------
(* The re-entries of the Quantifier arm (src/regex/matcher.rs 98-133)      *)

\* Patterns that begin with a quantified atom or a quantified group
ReentryShapes == QGroupShapes \cup QuantShapes

InitTerm ==
    /\ shape \in ReentryShapes
    /\ pattern = Render(shape)
    /\ text \in Texts
    /\ overflow_checks \in BOOLEAN
    /\ tokens = <<>>
    /\ captures = <<>>
    /\ result = NoResult
    /\ pc = "start"
    /\ SearchIdle

\* The greedy attempt of the Quantifier arm matches inner once and the arm
\* calls match_here again on the quantifier counted down one, followed by the
\* remaining tokens, at the text after the occurrence (matcher.rs 100-120)
CanReenter ==
    /\ tokens # <<>>
    /\ Head(tokens).type = "Quantifier"
    /\ ~QuantifierExhausted(Head(tokens).max)
    /\ LET i == match_here(<<Head(tokens).inner>>, text, captures) IN
       /\ i.tag = "Some"
       /\ ShouldRecurse(i.len, Head(tokens).min)
       /\ is_char_boundary(text, i.len)

ReenterQuantifier ==
    /\ pc \in {"parsed", "reentered"}
    /\ CanReenter
    /\ LET t == Head(tokens)
           i == match_here(<<t.inner>>, text, captures)
       IN /\ tokens' = <<Quantifier(t.inner, NextMin(t.min), NextMax(t.max))>>
                          \o Tail(tokens)
          /\ text' = SliceFrom(text, i.len)
          /\ captures' = i.caps
    /\ pc' = "reentered"
    /\ UNCHANGED <<shape, pattern, result, overflow_checks>>
    /\ UNCHANGED searchVars

\* The arm makes no further call on the quantifier: max is used up, inner
\* does not match, or an empty occurrence came with min at 0; what is left
\* is the fallback on the remaining tokens, None, or the abort of the thread
\* (matcher.rs 100-102 and 126-132)
LeaveQuantifier ==
    /\ pc \in {"parsed", "reentered"}
    /\ ~CanReenter
    /\ pc' = "left"
    /\ UNCHANGED matchVars
    /\ UNCHANGED searchVars

NextTerm == ParseRegex \/ ReenterQuantifier \/ LeaveQuantifier

SpecTerm == InitTerm /\ [][NextTerm]_vars

-----------------------------------------------------------------------------
(* Vocabulary of the properties                                            *)

RECURSIVE CharsOf(_)
CharsOf(bytes) ==
    IF bytes = <<>> THEN <<>>
    ELSE <<FirstChar(bytes)>>
            \o CharsOf(SliceFrom(bytes, len_utf8(FirstChar(bytes))))

\* The number of leading characters of chars that lie in accepts
RECURSIVE LeadCount(_, _)
LeadCount(chars, accepts) ==
    IF chars # <<>> /\ Head(chars) \in accepts
    THEN 1 + LeadCount(Tail(chars), accepts) ELSE 0

\* The text that follows its first k characters
AfterChars(bytes, k) ==
    SliceFrom(bytes, Len(EncodeStr(SubSeq(CharsOf(bytes), 1, k))))

SingleByte(bytes) ==
    \A i \in 1..Len(bytes) : bytes[i] \notin {LeadByte, ContinuationByte}

RECURSIVE Power(_, _)
Power(unit, k) == IF k = 0 THEN <<>> ELSE unit \o Power(unit, k - 1)

WithinBounds(k, min, max) == k >= min /\ (max.some => k <= max.val)

SetMax(S) == CHOOSE x \in S : \A y \in S : y <= x

MinOf(a, b) == IF a <= b THEN a ELSE b

\* seg is one of the strings the group body matches
InBody(body, seg) ==
    \E k \in 0..Len(seg) :
        WithinBounds(k, body.min, body.max) /\ seg = Power(body.unit, k)

\* Some number of further repetitions of the body, done so far not counted,
\* followed by the literal rest, matches a prefix of s
RECURSIVE RepetitionsThenRest(_, _, _, _, _, _)
RepetitionsThenRest(body, q, rest, s, done, cap) ==
    \/ done >= q.min /\ starts_with(s, rest)
    \/ /\ done < cap
       /\ q.max.some => done < q.max.val
       /\ \E j \in 0..Len(s) :
              /\ InBody(body, SliceTo(s, j))
              /\ RepetitionsThenRest(body, q, rest, SliceFrom(s, j), done + 1, cap)

\* C1: a group whose body is an alternation, followed by remaining outer
\* tokens, matches whenever some branch matches a prefix of the text and the
\* remaining tokens match what follows that prefix (here on texts of
\* single-byte characters, with literal branches and a literal rest).
C1_BranchWithRestMatches ==
    (/\ pc = "matched"
     /\ shape.family = "alt"
     /\ SingleByte(text)
     /\ \E i \in 1..Len(shape.branches) :
            starts_with(text, shape.branches[i] \o shape.rest))
    => result.tag = "Some"

\* C2: a quantified group followed by rest matches whenever some repetition
\* count within the bounds and some per-repetition lengths let the
\* repetitions followed by rest match a prefix of the text (here on texts of
\* single-byte characters).
C2_SomeRepetitionMatches ==
    (/\ pc = "matched"
     /\ shape.family = "qgroup"
     /\ SingleByte(text)
     /\ RepetitionsThenRest(shape.body, shape.q, shape.rest, text, 0,
                            Len(text) + shape.q.min))
    => result.tag = "Some"

\* C3: an EndAnchor succeeds only where no character of the text given to
\* match_pattern remains: a match of pre$post or (pre$)post passed the anchor
\* right after pre, so pre is then the whole text.
C3_AnchorOnlyAtEndOfText ==
    (/\ pc = "matched"
     /\ shape.family = "anchor"
     /\ result.tag = "Some")
    => Len(EncodeStr(shape.pre)) = Len(text)

\* C4: every offset at which match_here slices the text is a character
\* boundary, so no match aborts on a slice.
C4_SlicesAtCharBoundaries ==
    pc \in {"matched", "returned"}
    => ~(result.tag = "Panic" /\ result.why = "char_boundary")

\* C5: a Backreference without a recorded capture makes the attempt fail with
\* None, and never with an index or arithmetic fault.
C5_DanglingBackreferenceFails ==
    (pc = "matched" /\ shape.family = "dangling")
    => /\ result.tag # "Some"
       /\ ~(result.tag = "Panic" /\ result.why \in {"overflow", "index"})

\* C6: in the unanchored search, after an empty match the next attempt starts
\* exactly one character later, at the next character boundary of the line.
C6_EmptyMatchAdvancesOneChar ==
    [][(/\ pc = "loop"
        /\ ~is_anchored
        /\ current_search_text # <<>>
        /\ match_pattern(current_search_text, tokens).tag = "Some"
        /\ match_pattern(current_search_text, tokens).slice = <<>>)
       => (/\ pc' = "loop"
           /\ current_search_text' = AfterChars(current_search_text, 1))]_vars

\* The repetition counts the bounds of q and the text allow for the atom
FeasibleCounts(sh, bytes) ==
    {k \in sh.q.min..LeadCount(CharsOf(bytes), sh.atom.accepts) :
        WithinBounds(k, sh.q.min, sh.q.max)}

\* What the remaining tokens do on the text after k repetitions
RestAfter(k) == match_here(Tail(tokens), AfterChars(text, k), <<>>)

MatchingCounts == {k \in FeasibleCounts(shape, text) : RestAfter(k).tag = "Some"}

C8_BracedGreedyCapped ==
    (pc = "matched" /\ shape.family = "brace")
    => IF Len(text) < shape.q.min THEN result.tag = "None"
       ELSE /\ result.tag = "Some"
            /\ result.slice =
                  Power(<<"a">>, IF shape.q.max.some
                                 THEN MinOf(Len(text), shape.q.max.val)
                                 ELSE Len(text))

\* C8 witness: a{2,4} on aaaaa returned aaaa
C8_Witness ==
    /\ pc = "matched"
    /\ shape.family = "brace"
    /\ shape.q = QRange(2, 4)
    /\ text = Power(<<"a">>, 5)
    /\ result.tag = "Some"
    /\ result.slice = Power(<<"a">>, 4)

\* The first n characters of chars are accepted by the atoms, one each
AtomsAccept(atoms, chars) ==
    /\ Len(chars) >= Len(atoms)
    /\ \A i \in 1..Len(atoms) : chars[i] \in atoms[i].accepts

\* C9: (X)\1 with X a sequence of single-character tokens matches exactly
\* when the text starts with s s for a string s matched by X, and then returns
\* s s; otherwise the result is None.
C9_GroupBackreferenceRoundTrip ==
    (pc = "matched" /\ shape.family = "roundtrip")
    => LET chars == CharsOf(text)
           n == Len(shape.atoms)
       IN IF /\ Len(chars) >= 2 * n
             /\ AtomsAccept(shape.atoms, chars)
             /\ SubSeq(chars, n + 1, 2 * n) = SubSeq(chars, 1, n)
          THEN /\ result.tag = "Some"
               /\ result.slice = EncodeStr(SubSeq(chars, 1, 2 * n))
          ELSE result.tag = "None"

\* The branches of a left-associated chain of Alternation nodes, in order
RECURSIVE FlattenAlternation(_)
FlattenAlternation(tok) ==
    IF Len(tok.left) = 1 /\ tok.left[1].type = "Alternation"
    THEN Append(FlattenAlternation(tok.left[1]), tok.right)
    ELSE <<tok.left, tok.right>>

LiteralTokens(str) == [i \in 1..Len(str) |-> Literal(str[i])]

\* The indices of the branches that match a prefix of bytes
MatchingBranches(branches, bytes) ==
    {i \in 1..Len(branches) : starts_with(bytes, EncodeStr(branches[i]))}

SetMin(S) == CHOOSE x \in S : \A y \in S : x <= y

CopiesThenChar(bytes, k) ==
    \E c \in TextChars \cup {"c", "d", "x"} :
        bytes = Power(<<"a", "b">>, k) \o EncodeChar(c)

\* C11: a quantifier written after a parenthesized span applies to the whole
\* group: the Group token is the inner token of the Quantifier, and (ab)+ on
\* k copies of ab followed by a character that does not continue the
\* repetition returns the k copies when k >= 1 and None when k = 0.
C11_QuantifierAppliesToGroup ==
    /\ (pc = "matched" /\ shape.family = "qgroup")
       => /\ tokens # <<>>
          /\ tokens[1].type = "Quantifier"
          /\ tokens[1].inner.type = "Group"
          /\ tokens[1].inner.id = 1
          /\ tokens[1].min = shape.q.min
          /\ tokens[1].max = shape.q.max
          /\ Len(tokens) = 1 + Len(shape.rest)
    /\ (/\ pc = "matched"
        /\ shape.family = "qgroup"
        /\ shape.body.str = <<"a", "b">>
        /\ shape.q = QPlus
        /\ shape.rest = <<>>)
       => /\ tokens = <<Quantifier(Group(<<Literal("a"), Literal("b")>>, 1),
                                   1, NoneUsize)>>
          /\ \A k \in 0..MaxTextLen :
                CopiesThenChar(text, k)
                => IF k >= 1
                   THEN /\ result.tag = "Some"
                        /\ result.slice = Power(<<"a", "b">>, k)
                   ELSE result.tag = "None"

\* The byte offsets of bytes that are character boundaries
Boundaries(bytes) == {o \in 0..Len(bytes) : is_char_boundary(bytes, o)}

\* The boundaries of bytes at which match_pattern succeeds on the suffix
MatchOffsets(bytes) ==
    {o \in Boundaries(bytes) :
        match_pattern(SliceFrom(bytes, o), tokens).tag = "Some"}

\* The offset up to which the search of the line has tried every boundary
TriedUpTo ==
    IF reported # <<>> THEN reported[1].start
    ELSE IF attempts # <<>> THEN attempts[Len(attempts)] ELSE -1

\* C12: unanchored, the attempts of a line are made at character boundaries,
\* from offset 0 rightwards, none skipped before the first match; the first
\* match reported starts at the smallest offset at which match_pattern
\* succeeds on the suffix of the line, and a line searched to its end without
\* a report has no such offset.
C12_LeftmostFirstSearch ==
    ~is_anchored
    => /\ \A i \in 1..Len(attempts) : attempts[i] \in Boundaries(line)
       /\ \A i \in 1..(Len(attempts) - 1) : attempts[i] < attempts[i + 1]
       /\ attempts # <<>> => attempts[1] = 0
       /\ \A o \in Boundaries(line) :
             o <= TriedUpTo => \E i \in 1..Len(attempts) : attempts[i] = o
       /\ reported # <<>> =>
             /\ MatchOffsets(line) # {}
             /\ reported[1].start = SetMin(MatchOffsets(line))
       /\ (pc = "after_loop" /\ reported = <<>>) => MatchOffsets(line) = {}

\* C12 witness: the first match of a line was found after failed attempts at
\* the boundaries before it, one of them after a two-byte character
C12_Witness ==
    /\ ~is_anchored
    /\ pc = "after_loop"
    /\ reported # <<>>
    /\ reported[1].start > 1
    /\ Len(attempts) >= 2
    /\ attempts[2] = 2
    /\ line[1] = LeadByte

\* C13: anchored, match_pattern is invoked exactly once per line, on the whole
\* line, whether it matches or not; the search text is never advanced and at
\* most one match is reported per line.
C13_AnchoredTriesOnce ==
    is_anchored
    => /\ Len(attempts) <= 1
       /\ \A i \in 1..Len(attempts) : attempts[i] = 0
       /\ current_search_text = line
       /\ Len(reported) <= 1
       /\ \A i \in 1..Len(reported) : reported[i].start = 0
       /\ pc \in {"after_loop", "abort"} => Len(attempts) = 1
       /\ pc = "after_loop" =>
             (reported # <<>> <=> match_pattern(line, tokens).tag = "Some")

\* C13 witness: the one anchored attempt failed although the pattern matches
\* further along the line, and the search of the line ended there
C13_Witness ==
    /\ is_anchored
    /\ pc = "after_loop"
    /\ attempts = <<0>>
    /\ reported = <<>>
    /\ MatchOffsets(line) # {}
    /\ Len(line) >= 2

\* The attempt made after attempt i of the line starts at offset o
NextAttemptAt(i, o) ==
    /\ i < Len(attempts) => attempts[i + 1] = o
    /\ (i = Len(attempts) /\ pc = "loop") => offset_in_line = o

\* C14: unanchored, the attempt after a non-empty match starts exactly at the
\* end of the matched span; last_match_end_in_line <= offset_in_line <= the
\* length of the line in every state of the loop; and the matches reported for
\* a line do not overlap and come in strictly increasing order of start.
C14_SearchResumesAtMatchEnd ==
    ~is_anchored
    => /\ \A i \in 1..Len(attempts) : \A j \in 1..Len(reported) :
             (reported[j].start = attempts[i] /\ reported[j].len > 0)
             => /\ NextAttemptAt(i, reported[j].start + reported[j].len)
                /\ i = Len(attempts) => pc = "loop"
       /\ last_match_end_in_line <= offset_in_line
       /\ offset_in_line <= Len(line)
       /\ \A j \in 1..(Len(reported) - 1) :
             /\ reported[j].start < reported[j + 1].start
             /\ reported[j].start + reported[j].len <= reported[j + 1].start
       /\ \A j \in 1..Len(reported) :
             reported[j].start + reported[j].len <= Len(line)

\* C14 witness: two matches on one line, the second found by the attempt made
\* at the end of the first, which spans a two-byte character
C14_Witness ==
    /\ ~is_anchored
    /\ pc = "after_loop"
    /\ Len(reported) = 2
    /\ reported[1] = [start |-> 0, len |-> 2]
    /\ reported[2].start = 2
    /\ line[1] = LeadByte
    /\ attempts = <<0, 2, 3>>

RECURSIVE GroupIdsOf(_)
RECURSIVE TokenGroupIds(_)

\* The ids of the Group tokens of a token tree, each group before the groups
\* of its body, branches and siblings left to right
GroupIdsOf(toks) ==
    IF toks = <<>> THEN <<>>
    ELSE TokenGroupIds(Head(toks)) \o GroupIdsOf(Tail(toks))

TokenGroupIds(t) ==
    CASE t.type = "Group" -> <<t.id>> \o GroupIdsOf(t.body)
      [] t.type = "Quantifier" -> TokenGroupIds(t.inner)
      [] t.type = "Alternation" -> GroupIdsOf(t.left) \o GroupIdsOf(t.right)
      [] OTHER -> <<>>

\* The number of occurrences of c in cs
RECURSIVE CountChar(_, _)
CountChar(cs, c) ==
    IF cs = <<>> THEN 0
    ELSE (IF Head(cs) = c THEN 1 ELSE 0) + CountChar(Tail(cs), c)

\* C15: the Group tokens of the tree parse_regex returns carry the ids
\* 1, 2, ..., n in left-to-right order of their opening parentheses, nested
\* groups and groups inside alternation branches included; where every "(" of
\* the pattern opens a group, n is the number of "(".
C15_GroupIdsContiguousInOrder ==
    pc = "parsed"
    => LET ids == GroupIdsOf(tokens) IN
       /\ ids = [i \in 1..Len(ids) |-> i]
       /\ pattern \in ParenPatterns => Len(ids) = CountChar(pattern, "(")

\* C15 witness: ((a)|(b))(c) parsed, with groups inside both branches of an
\* alternation numbered 2 and 3 and the following group numbered 4
C15_Witness ==
    /\ pc = "parsed"
    /\ pattern =
          <<"(", "(", "a", ")", "|", "(", "b", ")", ")", "(", "c", ")">>
    /\ Len(tokens) = 2
    /\ tokens[1].id = 1
    /\ tokens[1].body[1].type = "Alternation"
    /\ tokens[1].body[1].left[1].id = 2
    /\ tokens[1].body[1].right[1].id = 3
    /\ tokens[2].id = 4

\* C16: a pattern p of literal characters matches p itself entirely, returns p
\* on every text that has p as a prefix, and returns None on every other
\* text, among them the texts as long as p that differ from it in a character
\* and the proper prefixes of p.
C16_LiteralPatternMatchesItself ==
    (pc = "matched" /\ shape.family = "literal")
    => LET p == EncodeStr(shape.str) IN
       /\ tokens = LiteralTokens(shape.str)
       /\ starts_with(text, p) => (result.tag = "Some" /\ result.slice = p)
       /\ (Len(CharsOf(text)) = Len(shape.str) /\ text # p) => result.tag = "None"
       /\ (starts_with(p, text) /\ text # p) => result.tag = "None"
       /\ ~starts_with(text, p) => result.tag = "None"

\* C16 witness: a literal pattern with a two-byte character returned as the
\* prefix of a longer text
C16_Witness ==
    /\ pc = "matched"
    /\ shape.family = "literal"
    /\ shape.str = <<"a", WideChar>>
    /\ text = EncodeStr(<<"a", WideChar, "b">>)
    /\ result.tag = "Some"
    /\ result.slice = EncodeStr(<<"a", WideChar>>)

RECURSIVE WellFormed(_)
RECURSIVE WellFormedToken(_)

\* toks is a sequence of Token values
WellFormed(toks) == \A i \in 1..Len(toks) : WellFormedToken(toks[i])

WellFormedToken(t) ==
    CASE t.type \in {"Digit", "Alphanumeric", "Wildcard", "EndAnchor"} -> TRUE
      [] t.type = "Literal" -> DOMAIN t = {"type", "c"}
      [] t.type = "BracketGroup" ->
            t.group_type \in {"Positive", "Negative"} /\ Len(t.members) >= 0
      [] t.type = "Backreference" -> t.n \in 0..9
      [] t.type = "Quantifier" ->
            /\ WellFormedToken(t.inner)
            /\ t.min \in Nat
            /\ t.max.some \in BOOLEAN
            /\ t.max.some => t.max.val \in Nat
      [] t.type = "Alternation" -> WellFormed(t.left) /\ WellFormed(t.right)
      [] t.type = "Group" -> t.id \in Nat /\ t.id >= 1 /\ WellFormed(t.body)
      [] OTHER -> FALSE

\* Patterns left open or with a quantifier that has nothing before it, with
\* the tokens the rest of the pattern stands for
OpenExamples ==
    {[str |-> <<"[", "a">>, tokens |-> <<BracketGroup(<<"a">>, "Positive")>>],
     [str |-> <<"[">>, tokens |-> <<BracketGroup(<<>>, "Positive")>>],
     [str |-> <<"a", "[", "x", "(">>,
      tokens |-> <<Literal("a"), BracketGroup(<<"x", "(">>, "Positive")>>],
     [str |-> <<"(", "a">>, tokens |-> <<Group(<<Literal("a")>>, 1)>>],
     [str |-> <<"(">>, tokens |-> <<Group(<<>>, 1)>>],
     [str |-> <<"(", "(", "a">>,
      tokens |-> <<Group(<<Group(<<Literal("a")>>, 2)>>, 1)>>],
     [str |-> <<"a", "{", "1">>,
      tokens |-> <<Quantifier(Literal("a"), 1, SomeUsize(1))>>],
     [str |-> <<"a", "{">>,
      tokens |-> <<Quantifier(Literal("a"), 0, SomeUsize(0))>>],
     [str |-> <<"a", "{", "x", "}">>,
      tokens |-> <<Quantifier(Literal("a"), 0, SomeUsize(0))>>],
     [str |-> <<"a", "{", ",", "}">>,
      tokens |-> <<Quantifier(Literal("a"), 0, NoneUsize)>>],
     [str |-> <<"a", "\\">>, tokens |-> <<Literal("a")>>],
     [str |-> <<"\\">>, tokens |-> <<>>],
     [str |-> <<"+">>, tokens |-> <<>>],
     [str |-> <<"+", "a">>, tokens |-> <<Literal("a")>>],
     [str |-> <<"{", "1", "}">>, tokens |-> <<>>],
     [str |-> <<"{", "1", "}", "a">>, tokens |-> <<Literal("a")>>],
     [str |-> <<"(", "+">>, tokens |-> <<Group(<<>>, 1)>>],
     [str |-> <<"(", "{", "1", "}">>, tokens |-> <<Group(<<>>, 1)>>]}

\* C17: parse_regex returns a token sequence for every pattern string: an
\* unterminated [, ( or { runs to the end of the pattern, a trailing
\* backslash and a quantifier with nothing before it add no token, and inside
\* braces a minimum that is not a number becomes 0 (a maximum that is not a
\* number is absent).
C17_ParserIsTotal ==
    pc = "parsed"
    => /\ WellFormed(tokens)
       /\ \A e \in OpenExamples : pattern = e.str => tokens = e.tokens
       /\ shape.family = "parsebrace" =>
             LET n == IF shape.lo.val.some THEN shape.lo.val.val ELSE 0 IN
             tokens = <<Quantifier(Literal("a"), n,
                                   IF shape.comma THEN shape.hi.val
                                   ELSE SomeUsize(n))>>

\* C17 witness: a{x,2 parsed, braces left open and the minimum not a number
C17_Witness ==
    /\ pc = "parsed"
    /\ shape.family = "parsebrace"
    /\ ~shape.closed
    /\ shape.comma
    /\ shape.lo.str = <<"x">>
    /\ shape.hi.str = <<"2">>
    /\ tokens = <<Quantifier(Literal("a"), 0, SomeUsize(2))>>

\* after holds what before holds, slot for slot, and only empty slots more
SameCaptures(before, after) ==
    /\ Len(after) >= Len(before)
    /\ \A i \in 1..Len(before) : after[i] = before[i]
    /\ \A i \in (Len(before) + 1)..Len(after) : after[i] = NoneString

\* C18: when match_here returns None the captures of the caller are what they
\* were when it was entered, but for empty slots added at the end: a failed
\* attempt leaves no capture behind for the attempts made after it.
C18_FailedPathsLeakNoCaptures ==
    (pc \in {"returned", "rest_returned"} /\ result.tag = "None")
    => SameCaptures(captures, result.caps)

\* C18 witness: entered with the first group captured, the remaining tokens
\* captured a second group in a repetition, failed after it and left the
\* captures as they were
C18_Witness ==
    /\ pc = "rest_returned"
    /\ result.tag = "None"
    /\ pattern = <<"(", "a", ")", "(", "b", ")", "+", "a">>
    /\ captures = <<SomeString(<<"a">>)>>
    /\ text = <<"b", "b">>
    /\ result.caps = <<SomeString(<<"a">>)>>

\* The number of characters the atom of sh accepts in a row after sh.pre
OccurrencesAfterPre(sh, bytes) ==
    LeadCount(CharsOf(SliceFrom(bytes, Len(sh.pre))), sh.atom.accepts)

\* C19: a Quantifier of a parsed pattern never succeeds with fewer than min
\* occurrences of its inner token: pre x q rest matches only texts in which
\* at least min characters accepted by x follow pre, and what it returns holds
\* at least min characters; ab+c fails on ac and a{3} fails on aab.
C19_MinimumIsHonoured ==
    (pc = "matched" /\ shape.family = "minimum")
    => /\ result.tag = "Some" =>
             /\ starts_with(text, shape.pre)
             /\ OccurrencesAfterPre(shape, text) >= shape.q.min
             /\ Len(result.slice) >= Len(shape.pre) + shape.q.min
       /\ (/\ shape.pre = <<"a">> /\ shape.atom = AtomB /\ shape.q = QPlus
           /\ shape.rest = <<"c">> /\ text = <<"a", "c">>)
          => result.tag = "None"
       /\ (/\ shape.pre = <<>> /\ shape.atom = AtomA /\ shape.q = QExact(3)
           /\ shape.rest = <<>> /\ text = <<"a", "a", "b">>)
          => result.tag = "None"

RECURSIVE QuantifiersOf(_)
RECURSIVE TokenQuantifiers(_)

\* The Quantifier tokens of a token tree, at any depth
QuantifiersOf(toks) ==
    UNION {TokenQuantifiers(toks[i]) : i \in 1..Len(toks)}

TokenQuantifiers(t) ==
    CASE t.type = "Quantifier" -> {t} \cup TokenQuantifiers(t.inner)
      [] t.type = "Group" -> QuantifiersOf(t.body)
      [] t.type = "Alternation" -> QuantifiersOf(t.left) \cup QuantifiersOf(t.right)
      [] OTHER -> {}

\* C20: every Quantifier token of the tree parse_regex returns has max absent
\* or greater than or equal to min.
C20_MaxNotBelowMin ==
    pc = "parsed"
    => \A q \in QuantifiersOf(tokens) : q.max.some => q.max.val >= q.min

\* C21: match_here terminates, quantifiers without maximum over an inner token
\* that matches the empty string included: every re-entry of a quantifier
\* comes after an occurrence that consumed at least one character or with
\* min decreased, and neither the text nor min ever grows, so the chain of
\* re-entries is no longer than the length of the text plus min.
C21_QuantifierReentriesEnd ==
    [][pc' = "reentered"
       => /\ \/ Len(text') < Len(text)
             \/ Head(tokens').min < Head(tokens).min
          /\ Len(text') <= Len(text)
          /\ Head(tokens').min <= Head(tokens).min
          /\ Head(tokens').type = "Quantifier"
          /\ Head(tokens').inner = Head(tokens).inner]_vars

\* C21 witness: (a*)+ on a text that does not start with a was re-entered
\* once after an empty occurrence, with min counted down from 1 to 0, and
\* then left
C21_Witness ==
    /\ pc = "left"
    /\ shape.family = "qgroup"
    /\ shape.body.str = <<"a", "*">>
    /\ shape.q = QPlus
    /\ text = <<"b">>
    /\ Head(tokens).min = 0
    /\ captures = <<SomeString(<<>>)>>

\* C22: the tokens that follow an EndAnchor still have to match: pre$post
\* with a literal post matches only if post matches the empty text left at
\* the anchor, that is only if post is empty; a$b never matches the text a.
C22_TokensAfterAnchorRequired ==
    (/\ pc = "matched"
     /\ shape.family = "anchor"
     /\ ~shape.grouped
     /\ result.tag = "Some")
    => shape.post = <<>>

\* C23: the search loop of process_input exits on every line: an iteration
\* that stays in the loop happens only in unanchored mode on a text that is
\* not empty, and leaves a strictly shorter remaining text (shorter by the
\* matched length, by one on an empty match, by one character on a failed
\* attempt); so an iteration on the empty text and every anchored iteration
\* leave the loop, and a line sees at most one attempt per byte plus one.
C23_SearchLoopExits ==
    [][pc = "loop"
       => /\ pc' \in {"loop", "after_loop", "abort"}
          /\ Len(attempts') = Len(attempts) + 1
          /\ Len(attempts') <= Len(line) + 1
          /\ pc' = "loop"
             => /\ ~is_anchored
                /\ current_search_text # <<>>
                /\ Len(current_search_text') < Len(current_search_text)
                /\ Len(current_search_text) - Len(current_search_text')
                     = IF reported' = reported
                       THEN IF Head(current_search_text) = "C3" THEN 2 ELSE 1
                       ELSE IF reported'[Len(reported')].len = 0 THEN 1
                       ELSE reported'[Len(reported')].len]_vars

\* C23 witness: b? on the line ab, unanchored: an empty match at 0, the match
\* b at 1 and an empty match on the empty rest, after which the loop was left
C23_Witness ==
    /\ pc = "after_loop"
    /\ ~is_anchored
    /\ pattern = <<"b", "?">>
    /\ line = <<"a", "b">>
    /\ current_search_text = <<>>
    /\ attempts = <<0, 1, 2>>
    /\ reported = <<[start |-> 0, len |-> 0], [start |-> 1, len |-> 1],
                    [start |-> 2, len |-> 0]>>

=============================================================================
